---- MODULE Spec2Model ----
(***************************************************************************)
(* rustbin: request bins backed by SQLite (tables bins, requests), a       *)
(* registry of per-bin broadcast channels for websocket observers, and a   *)
(* background cleanup task that deletes inactive bins.                     *)
(*                                                                         *)
(* Spec      every HTTP handler and one cleanup pass run as one step       *)
(* SpecConc  log_request and the cleanup pass advance one await point at   *)
(*           a time and interleave with the other handlers                 *)
(* SpecCap   several log_request calls into one bin, step by step          *)
(* SpecHub   several websocket connections on the channel registry         *)
(* SpecSweep the cleanup pass over several bins, with failing statements   *)
(* SpecLive  SpecConc with the fairness of the runtime's scheduler         *)
(* SpecBytes captures whose bodies are arbitrary bytes                     *)
(* SpecPair  the handlers of Spec on two bins                              *)
(* SpecErase delete_request beside captures in flight, on two bins         *)
(***************************************************************************)
EXTENDS Integers, Sequences, FiniteSets, TLC

(* ------------------------------ bounds --------------------------------- *)
\* bins created in one run
MaxBins == 1
\* requests stored in one run
MaxInserts == 3
\* the clock runs from 0 to MaxTime; one unit is one hour
MaxTime == 2
\* websocket connections opened in one run
MaxSubs == 1
\* log_request calls that run step by step in one run
MaxTasks == 1
\* log_request calls in flight at once in SpecCap
MaxCaptures == 2
\* websocket connections opened in one run of SpecHub
MaxConns == 2
\* bins created in one run of SpecSweep
MaxSweepBins == 2
\* rows inserted in one run of SpecPair
MaxPairInserts == 4
\* LimitsConfig, scaled down from its defaults (100, 1 MiB, 1 MiB)
max_requests_per_bin == 2
max_body_size == 2
max_headers_size == 9
\* the capacity of a bin's broadcast channel, scaled down from 100
channel_capacity == 2

(* ------------------------- program constants --------------------------- *)
bin_expiry_hours == 1

(* --------------------------- identifiers ------------------------------- *)
\* A Uuid value is a number; a path segment is a string in one of the forms
\* Uuid::parse_str accepts, or a string it rejects.
MaxUuid == MaxBins + MaxInserts
Uuid == 1..MaxUuid
Hyphenated(u) == <<"hyphenated", u>>
UpperCase(u) == <<"uppercase", u>>
NotAUuid == <<"not-a-uuid", 0>>
\* steps that carry no identifier
NoId == <<"", 0>>
\* path segments the clients send
IdStrings == {Hyphenated(u) : u \in Uuid} \cup {UpperCase(1), NotAUuid}

\* Err(..) of validate_uuid; every Uuid is at least 1
Err == 0
\* Uuid::parse_str: case-insensitive, rejects anything else
validate_uuid(id) == IF id[1] \in {"hyphenated", "uppercase"} THEN id[2] ELSE Err
\* Uuid::to_string: lower-case hyphenated
to_string(u) == Hyphenated(u)
\* Uuid::new_v4: a value it never returned before; the n-th one is named n
new_v4(n) == n + 1

VARIABLES
    now,          \* Utc::now()
    bins,         \* table bins: rows [id, last_updated]
    requests,     \* table requests: rows [id, bin_id, request_id, method, headers, body, timestamp]
    seq,          \* sqlite_sequence of requests.id (AUTOINCREMENT)
    created,      \* how many bins create_bin has made
    issued,       \* how many Uuids new_v4 has returned
    bin_channels, \* DashMap: path segment -> broadcast channel
    chans,        \* number of broadcast channels created so far (names them)
    conns,        \* number of websocket connections accepted so far (names them)
    subs,         \* websocket tasks: connection -> [chan, queue] of its Receiver,
                  \* whether the client is there (open) and the request ids of
                  \* the messages sent to its socket (got)
    tasks,        \* log_request calls between their INSERT and their response (SpecConc)
    sweep,        \* the cleanup task's position in its loop (SpecConc)
    insertLog,    \* history: <<bin_id, request_id>> of every insert, in order
    purged,       \* history: bin ids that lost rows other than to the cap
    last          \* the most recent step and the response it produced

vars == <<now, bins, requests, seq, created, issued, bin_channels, chans, conns, subs, tasks,
          sweep, insertLog, purged, last>>

(* ------------------------------ payloads ------------------------------- *)
RECURSIVE Rep(_)
\* a header value of n visible ASCII characters
Rep(n) == IF n <= 0 THEN "" ELSE "v" \o Rep(n - 1)
\* a body of n ASCII bytes
Ascii(n) == [i \in 1..n |-> 97]

\* bodies the clients send: at the limit and one byte over
Bodies == {Ascii(max_body_size), Ascii(max_body_size + 1)}
\* header lists the clients send: {"h":"v.."} serializes to 8 + Len(value) bytes
HeaderLists == {<< <<"h", Rep(max_headers_size - 8)>> >>,
                << <<"h", Rep(max_headers_size - 7)>> >>}

RECURSIVE from_utf8_lossy(_)
\* String::from_utf8_lossy on ASCII bytes and bytes that start no UTF-8
\* sequence: the latter become U+FFFD, three bytes
from_utf8_lossy(bytes) ==
    IF bytes = <<>> THEN <<>>
    ELSE (IF Head(bytes) < 128 THEN <<Head(bytes)>> ELSE <<239, 191, 189>>)
         \o from_utf8_lossy(Tail(bytes))

\* headers.iter().map(..).collect::<HashMap<_, _>>(): a later value of a name
\* replaces an earlier one
CollectHeaders(hs) ==
    LET names == {hs[i][1] : i \in DOMAIN hs}
        lastOf(n) == CHOOSE i \in DOMAIN hs :
                        hs[i][1] = n /\ \A j \in DOMAIN hs : hs[j][1] = n => j <= i
    IN [n \in names |-> hs[lastOf(n)][2]]

RECURSIVE JsonEntries(_, _)
JsonEntries(m, K) ==
    IF K = {} THEN ""
    ELSE LET k == CHOOSE x \in K : TRUE
         IN "\"" \o k \o "\":\"" \o m[k] \o "\""
            \o (IF K \ {k} = {} THEN "" ELSE ",") \o JsonEntries(m, K \ {k})
\* serde_json::to_string of the map
to_json(m) == "{" \o JsonEntries(m, DOMAIN m) \o "}"

\* process_request_data with >= in the body test
process_request_data_ge(method, headers, body_bytes, fresh) ==
    LET body_str == from_utf8_lossy(body_bytes)
        headers_json == to_json(CollectHeaders(headers))
    IN IF Len(body_bytes) >= max_body_size THEN [ok |-> FALSE, status |-> 413]
       ELSE IF Len(headers_json) > max_headers_size THEN [ok |-> FALSE, status |-> 413]
       ELSE [ok |-> TRUE, method |-> method, headers_json |-> headers_json,
             body |-> body_str, request_id |-> fresh]

\* process_request_data: Err(413) or the ProcessedRequest; the body is
\* measured in received bytes, the headers in serialized bytes
process_request_data(method, headers, body_bytes, fresh) ==
    LET body_str == from_utf8_lossy(body_bytes)
        headers_json == to_json(CollectHeaders(headers))
    IN IF Len(body_bytes) > max_body_size THEN [ok |-> FALSE, status |-> 413]
       ELSE IF Len(headers_json) > max_headers_size THEN [ok |-> FALSE, status |-> 413]
       ELSE [ok |-> TRUE, method |-> method, headers_json |-> headers_json,
             body |-> body_str, request_id |-> fresh]

(* ------------------------------ the store ------------------------------ *)
\* the COUNT without its WHERE clause
any_bin_exists(bs, id) == Cardinality(bs) # 0

\* SELECT COUNT(*) FROM bins WHERE id = ?  is not 0
check_bin_exists(bs, id) == Cardinality({b \in bs : b.id = id}) # 0

\* the UPDATE binding the epoch instead of the clock reading
update_last_updated_epoch(bs, id, t) ==
    {IF b.id = id THEN [b EXCEPT !.last_updated = 0] ELSE b : b \in bs}

\* UPDATE bins SET last_updated = ? WHERE id = ?
update_last_updated(bs, id, t) ==
    {IF b.id = id THEN [b EXCEPT !.last_updated = t] ELSE b : b \in bs}

\* INSERT INTO requests (...): AUTOINCREMENT gives the row the id after the
\* largest id the table ever held
store_request_in_db(rs, s, bin_id, data, t) ==
    rs \cup {[id |-> s + 1, bin_id |-> bin_id, request_id |-> data.request_id,
              method |-> data.method, headers |-> data.headers_json,
              body |-> data.body, timestamp |-> t]}

\* the rows of DELETE FROM requests WHERE bin_id = ? LIMIT 1
rows_of_bin_first(rs, bin_id) ==
    {r \in rs : r.bin_id = bin_id /\ \A q \in rs : q.bin_id = bin_id => r.id <= q.id}

\* the rows of DELETE FROM requests WHERE bin_id = ?
rows_of_bin(rs, bin_id) == {r \in rs : r.bin_id = bin_id}

\* SELECT COUNT(*) FROM requests WHERE bin_id = ?
count_requests(rs, bin_id) == Cardinality({r \in rs : r.bin_id = bin_id})

\* the same DELETE with ORDER BY id DESC
delete_newest(rs, bin_id, excess) ==
    LET mine == {r \in rs : r.bin_id = bin_id}
        lastIds == {r.id : r \in {x \in mine :
                        Cardinality({y \in mine : y.id > x.id}) < excess}}
    IN {r \in rs : ~(r.bin_id = bin_id /\ r.id \in lastIds)}

\* DELETE FROM requests WHERE bin_id = ? AND id IN
\*   (SELECT id FROM requests WHERE bin_id = ? ORDER BY id ASC LIMIT excess)
delete_oldest(rs, bin_id, excess) ==
    LET mine == {r \in rs : r.bin_id = bin_id}
        firstIds == {r.id : r \in {x \in mine :
                        Cardinality({y \in mine : y.id < x.id}) < excess}}
    IN {r \in rs : ~(r.bin_id = bin_id /\ r.id \in firstIds)}

\* enforce_request_limit whose statements have no WHERE bin_id = ?
enforce_request_limit_any_bin(rs, bin_id) ==
    LET count == Cardinality(rs)
        firstIds == {r.id : r \in {x \in rs :
                        Cardinality({y \in rs : y.id < x.id}) < count - max_requests_per_bin}}
    IN IF count > max_requests_per_bin
       THEN {r \in rs : r.id \notin firstIds}
       ELSE rs

\* enforce_request_limit with no other statement between its count and delete
enforce_request_limit(rs, bin_id) ==
    LET count == count_requests(rs, bin_id)
    IN IF count > max_requests_per_bin
       THEN delete_oldest(rs, bin_id, count - max_requests_per_bin)
       ELSE rs

RECURSIVE OrderByIdDesc(_)
\* ORDER BY id DESC
OrderByIdDesc(rs) ==
    IF rs = {} THEN <<>>
    ELSE LET m == CHOOSE r \in rs : \A q \in rs : r.id >= q.id
         IN <<m>> \o OrderByIdDesc(rs \ {m})

RECURSIVE OrderById(_)
\* ORDER BY id
OrderById(rs) ==
    IF rs = {} THEN <<>>
    ELSE LET m == CHOOSE r \in rs : \A q \in rs : r.id <= q.id
         IN <<m>> \o OrderById(rs \ {m})

\* the columns inspect_bin selects into LoggedRequest
LoggedRequest(r) == [method |-> r.method, headers |-> r.headers, body |-> r.body,
                     timestamp |-> r.timestamp, request_id |-> r.request_id]

\* the same SELECT with ORDER BY id DESC
select_requests_desc(rs, bin_id) ==
    LET rows == OrderByIdDesc({r \in rs : r.bin_id = bin_id})
    IN [i \in DOMAIN rows |-> LoggedRequest(rows[i])]

\* SELECT method, headers, body, timestamp, request_id FROM requests
\*   WHERE bin_id = ? ORDER BY id
select_requests(rs, bin_id) ==
    LET rows == OrderById({r \in rs : r.bin_id = bin_id})
    IN [i \in DOMAIN rows |-> LoggedRequest(rows[i])]

(* --------------------------- broadcast channels ------------------------ *)
\* Sender::receiver_count
receiver_count(ss, c) == Cardinality({s \in DOMAIN ss : ss[s].chan = c})

\* the publish on one channel shared by all bins: every Receiver gets the payload
send_to_every_channel(ss, chs, bin_id, data, t) ==
    LET payload == [method |-> data.method, headers |-> data.headers_json,
                    body |-> data.body, timestamp |-> t,
                    request_id |-> data.request_id]
    IN [s \in DOMAIN ss |-> [ss[s] EXCEPT !.queue = Append(@, payload)]]

\* send_websocket_notification: one copy of the payload for every Receiver of
\* the bin's channel, nothing when the registry has no entry
send_websocket_notification(ss, chs, bin_id, data, t) ==
    IF bin_id \notin DOMAIN chs THEN ss
    ELSE LET payload == [method |-> data.method, headers |-> data.headers_json,
                         body |-> data.body, timestamp |-> t,
                         request_id |-> data.request_id]
         IN [s \in DOMAIN ss |->
                IF ss[s].chan = chs[bin_id]
                THEN [ss[s] EXCEPT !.queue = Append(@, payload)]
                ELSE ss[s]]

\* what the publish met: no channel ("skipped"), Sender::send returning
\* Err(SendError) because the channel has no Receiver ("err"), or Ok ("ok")
send_result(ss, chs, bin_id) ==
    IF bin_id \notin DOMAIN chs THEN "skipped"
    ELSE IF receiver_count(ss, chs[bin_id]) = 0 THEN "err" ELSE "ok"

\* log_request failing the capture when the publish reached nobody
status_after_publish_checked(result) == IF result = "err" THEN 500 ELSE 200

\* log_request drops the result of the publish (let _ = sender.send(..)) and
\* answers "Request logged"
status_after_publish(result) == 200

\* the test without receiver_count: any registered channel counts
has_channel(chs, ss, bin_id) == bin_id \in DOMAIN chs

\* the cleanup task's test for a bin it found expired
has_active_connections(chs, ss, bin_id) ==
    IF bin_id \in DOMAIN chs THEN receiver_count(ss, chs[bin_id]) > 0 ELSE FALSE

\* DashMap::remove
remove_channel(chs, keys) == [k \in DOMAIN chs \ keys |-> chs[k]]

(* ------------------------------ responses ------------------------------ *)
\* a call and what the handler returned: its name, its path argument, the
\* HTTP status, the rows (inspect_bin) or the count (clear_bin_requests) of the
\* response, the bytes of body and serialized headers the call carried, and
\* the statement of the call the database failed ("none" when it did not)
Response(op, id, status) ==
    [op |-> op, id |-> id, status |-> status, rows |-> <<>>, count |-> 0,
     body_bytes |-> 0, headers_bytes |-> 0, fault |-> "none"]
\* the response of log_request to a call with these headers and body
Logged(id, status, headers, body) ==
    [Response("log_request", id, status)
        EXCEPT !.body_bytes = Len(body),
               !.headers_bytes = Len(to_json(CollectHeaders(headers)))]
\* no response is on its way to a client
NoResponse == Response("none", NoId, 0)

\* a delete handler that answers 200 whatever rows_affected is
status_always_ok(rows_affected) == 200

\* delete_bin and delete_request: 404 when the DELETE matched no row
status_of_delete(rows_affected) == IF rows_affected = 0 THEN 404 ELSE 200

(* ------------------------------- Init ---------------------------------- *)
\* the cleanup task asleep between two passes. Of a pass it holds the bins
\* still to visit (expired) and the bin it is about to delete (victim), and as
\* history the rows of bins and the clock when its SELECT ran (seen, at) and
\* the rows its DELETEs removed (removed), the result of its SELECT (listing)
\* and the bins whose DELETE failed, each with the bins then still to visit
\* (failed)
Idle == [pc |-> "sleep", expired |-> {}, victim |-> NoId, seen |-> {}, at |-> 0,
         removed |-> {}, listing |-> "none", failed |-> {}]

Init ==
    /\ now = 0
    /\ bins = {}
    /\ requests = {}
    /\ seq = 0
    /\ issued = 0
    /\ created = 0
    /\ bin_channels = <<>>
    /\ chans = 0
    /\ conns = 0
    /\ subs = <<>>
    /\ tasks = <<>>
    /\ sweep = Idle
    /\ insertLog = <<>>
    /\ purged = {}
    /\ last = NoResponse

(* ---------------------- handlers, each as one step --------------------- *)
\* POST /create, while fewer than limit bins were created
create_bin(limit) ==
    /\ last = NoResponse
    /\ created < limit
    /\ LET id == to_string(new_v4(issued))
       IN /\ bins' = bins \cup {[id |-> id, last_updated |-> now]}
          /\ last' = Response("create_bin", id, 200)
    /\ issued' = issued + 1
    /\ created' = created + 1
    /\ UNCHANGED <<now, requests, seq, bin_channels, chans, conns, subs, tasks,
                   sweep, insertLog, purged>>

CreateBin == create_bin(MaxBins)

\* log_request that calls process_request_data before its two other checks
log_request_size_first(limit, id, headers, body) ==
    /\ last = NoResponse
    /\ \/ /\ ~process_request_data("POST", headers, body, Err).ok
          /\ last' = Logged(id, 413, headers, body)
          /\ UNCHANGED <<bins, requests, seq, issued, subs, insertLog>>
       \/ /\ process_request_data("POST", headers, body, Err).ok
          /\ validate_uuid(id) = Err
          /\ last' = Logged(id, 400, headers, body)
          /\ UNCHANGED <<bins, requests, seq, issued, subs, insertLog>>
       \/ /\ process_request_data("POST", headers, body, Err).ok
          /\ validate_uuid(id) # Err
          /\ ~check_bin_exists(bins, id)
          /\ last' = Logged(id, 404, headers, body)
          /\ UNCHANGED <<bins, requests, seq, issued, subs, insertLog>>
       \/ /\ validate_uuid(id) # Err
          /\ check_bin_exists(bins, id)
          /\ seq < limit
          /\ LET data == process_request_data("POST", headers, body, new_v4(issued))
             IN /\ data.ok
                /\ requests' = enforce_request_limit(
                       store_request_in_db(requests, seq, id, data, now), id)
                /\ seq' = seq + 1
                /\ bins' = update_last_updated(bins, id, now)
                /\ subs' = send_websocket_notification(subs, bin_channels, id, data, now)
                /\ issued' = issued + 1
                /\ insertLog' = Append(insertLog, <<id, data.request_id>>)
                /\ last' = Logged(id, status_after_publish(send_result(subs, bin_channels, id)),
                                  headers, body)
    /\ UNCHANGED <<now, created, bin_channels, chans, conns, tasks, sweep, purged>>

\* ANY /bin/:id, while fewer than limit rows were ever inserted
log_request(limit, id, headers, body) ==
    /\ last = NoResponse
    /\ \/ /\ validate_uuid(id) = Err
          /\ last' = Logged(id, 400, headers, body)
          /\ UNCHANGED <<bins, requests, seq, issued, subs, insertLog>>
       \/ /\ validate_uuid(id) # Err
          /\ ~check_bin_exists(bins, id)
          /\ last' = Logged(id, 404, headers, body)
          /\ UNCHANGED <<bins, requests, seq, issued, subs, insertLog>>
       \/ /\ validate_uuid(id) # Err
          /\ check_bin_exists(bins, id)
          /\ ~process_request_data("POST", headers, body, Err).ok
          /\ last' = Logged(id, 413, headers, body)
          /\ UNCHANGED <<bins, requests, seq, issued, subs, insertLog>>
       \/ /\ validate_uuid(id) # Err
          /\ check_bin_exists(bins, id)
          /\ seq < limit
          /\ LET data == process_request_data("POST", headers, body, new_v4(issued))
             IN /\ data.ok
                /\ requests' = enforce_request_limit(
                       store_request_in_db(requests, seq, id, data, now), id)
                /\ seq' = seq + 1
                /\ bins' = update_last_updated(bins, id, now)
                /\ subs' = send_websocket_notification(subs, bin_channels, id, data, now)
                /\ issued' = issued + 1
                /\ insertLog' = Append(insertLog, <<id, data.request_id>>)
                /\ last' = Logged(id, status_after_publish(send_result(subs, bin_channels, id)),
                                  headers, body)
    /\ UNCHANGED <<now, created, bin_channels, chans, conns, tasks, sweep, purged>>

LogRequest(id, headers, body) == log_request(MaxInserts, id, headers, body)

\* inspect_bin without its check_bin_exists
InspectBinUnchecked(id) ==
    /\ last = NoResponse
    /\ last' = IF validate_uuid(id) = Err THEN Response("inspect_bin", id, 400)
               ELSE [Response("inspect_bin", id, 200)
                        EXCEPT !.rows = select_requests(requests, id)]
    /\ UNCHANGED <<now, bins, requests, seq, created, issued, bin_channels, chans,
                   conns, subs, tasks, sweep, insertLog, purged>>

\* GET /bin/:id/inspect
InspectBin(id) ==
    /\ last = NoResponse
    /\ last' = IF validate_uuid(id) = Err THEN Response("inspect_bin", id, 400)
               ELSE IF ~check_bin_exists(bins, id) THEN Response("inspect_bin", id, 404)
               ELSE [Response("inspect_bin", id, 200)
                        EXCEPT !.rows = select_requests(requests, id)]
    /\ UNCHANGED <<now, bins, requests, seq, created, issued, bin_channels, chans,
                   conns, subs, tasks, sweep, insertLog, purged>>

\* DELETE /delete/:id
DeleteBin(id) ==
    LET uuid == validate_uuid(id)
        hit == {b \in bins : b.id = to_string(uuid)}
        status == IF uuid = Err THEN 400 ELSE status_of_delete(Cardinality(hit))
    IN /\ last = NoResponse
       /\ last' = Response("delete_bin", id, status)
       /\ IF status = 200
          THEN /\ bins' = update_last_updated(bins \ hit, id, now)
               /\ purged' = purged \cup {x.id : x \in hit}
          ELSE UNCHANGED <<bins, purged>>
       /\ UNCHANGED <<now, requests, seq, created, issued, bin_channels, chans,
                      conns, subs, tasks, sweep, insertLog>>

\* delete_request deleting every row of the bin that holds the request
DeleteRequestWithItsBin(id) ==
    LET uuid == validate_uuid(id)
        hit == {r \in requests : r.request_id = uuid}
        all == {r \in requests : \E h \in hit : r.bin_id = h.bin_id}
        status == IF uuid = Err THEN 400 ELSE status_of_delete(Cardinality(hit))
    IN /\ last = NoResponse
       /\ last' = Response("delete_request", id, status)
       /\ IF status = 200
          THEN /\ requests' = requests \ all
               /\ bins' = update_last_updated(bins, id, now)
               /\ purged' = purged \cup {r.bin_id : r \in hit}
          ELSE UNCHANGED <<bins, requests, purged>>
       /\ UNCHANGED <<now, seq, created, issued, bin_channels, chans, conns, subs,
                      tasks, sweep, insertLog>>

\* DELETE /request/:id
DeleteRequest(id) ==
    LET uuid == validate_uuid(id)
        hit == {r \in requests : r.request_id = uuid}
        status == IF uuid = Err THEN 400 ELSE status_of_delete(Cardinality(hit))
    IN /\ last = NoResponse
       /\ last' = Response("delete_request", id, status)
       /\ IF status = 200
          THEN /\ requests' = requests \ hit
               /\ bins' = update_last_updated(bins, id, now)
               /\ purged' = purged \cup {r.bin_id : r \in hit}
          ELSE UNCHANGED <<bins, requests, purged>>
       /\ UNCHANGED <<now, seq, created, issued, bin_channels, chans, conns, subs,
                      tasks, sweep, insertLog>>

\* DELETE /bin/:id/clear
ClearBinRequests(id) ==
    LET hit == rows_of_bin(requests, id)
    IN /\ last = NoResponse
       /\ \/ /\ validate_uuid(id) = Err
             /\ last' = Response("clear_bin_requests", id, 400)
             /\ UNCHANGED <<bins, requests, purged>>
          \/ /\ validate_uuid(id) # Err
             /\ ~check_bin_exists(bins, id)
             /\ last' = Response("clear_bin_requests", id, 404)
             /\ UNCHANGED <<bins, requests, purged>>
          \/ /\ validate_uuid(id) # Err
             /\ check_bin_exists(bins, id)
             /\ requests' = requests \ hit
             /\ bins' = update_last_updated(bins, id, now)
             /\ purged' = purged \cup {id}
             /\ last' = [Response("clear_bin_requests", id, 200)
                            EXCEPT !.count = Cardinality(hit)]
       /\ UNCHANGED <<now, seq, created, issued, bin_channels, chans, conns, subs,
                      tasks, sweep, insertLog>>

\* the response reaches the client; the next call is taken after it
Return ==
    /\ last # NoResponse
    /\ last' = NoResponse
    /\ UNCHANGED <<now, bins, requests, seq, created, issued, bin_channels, chans,
                   conns, subs, tasks, sweep, insertLog, purged>>

(* ------------------------------ websocket ------------------------------ *)
\* handle_socket starting its Receiver with the requests the bin holds
WsConnectReplays(bin_id) ==
    /\ last = NoResponse
    /\ conns < MaxSubs
    /\ LET fresh == bin_id \notin DOMAIN bin_channels
           chan == IF fresh THEN chans + 1 ELSE bin_channels[bin_id]
           rows == OrderById(rows_of_bin(requests, bin_id))
           held == [i \in DOMAIN rows |->
                      [method |-> rows[i].method, headers |-> rows[i].headers,
                       body |-> rows[i].body, timestamp |-> rows[i].timestamp,
                       request_id |-> rows[i].request_id]]
       IN /\ bin_channels' = IF fresh THEN bin_channels @@ (bin_id :> chan)
                             ELSE bin_channels
          /\ chans' = IF fresh THEN chans + 1 ELSE chans
          /\ subs' = subs @@ ((conns + 1) :> [chan |-> chan, queue |-> held, open |-> TRUE,
                                             got |-> <<>>])
    /\ conns' = conns + 1
    /\ UNCHANGED <<now, bins, requests, seq, created, issued, tasks, sweep,
                   insertLog, purged, last>>

\* GET /bin/:id/ws: handle_socket up to its first recv
WsConnect(bin_id) ==
    /\ last = NoResponse
    /\ conns < MaxSubs
    /\ LET fresh == bin_id \notin DOMAIN bin_channels
           chan == IF fresh THEN chans + 1 ELSE bin_channels[bin_id]
       IN /\ bin_channels' = IF fresh THEN bin_channels @@ (bin_id :> chan)
                             ELSE bin_channels
          /\ chans' = IF fresh THEN chans + 1 ELSE chans
          /\ subs' = subs @@ ((conns + 1) :> [chan |-> chan, queue |-> <<>>, open |-> TRUE,
                                             got |-> <<>>])
    /\ conns' = conns + 1
    /\ UNCHANGED <<now, bins, requests, seq, created, issued, tasks, sweep,
                   insertLog, purged, last>>

\* the client closes its end of the socket
ClientClose(s) ==
    /\ last = NoResponse
    /\ s \in DOMAIN subs
    /\ subs[s].open
    /\ subs' = [subs EXCEPT ![s].open = FALSE]
    /\ UNCHANGED <<now, bins, requests, seq, created, issued, bin_channels, chans,
                   conns, tasks, sweep, insertLog, purged, last>>

\* handle_socket removing the registry entry when the last Receiver of the
\* channel is dropped
WsForwardDropsEntry(s) ==
    /\ last = NoResponse
    /\ s \in DOMAIN subs
    /\ subs[s].queue # <<>>
    /\ subs' = IF subs[s].open /\ Len(subs[s].queue) <= channel_capacity
               THEN [subs EXCEPT ![s].queue = Tail(@),
                                 ![s].got = Append(@, subs[s].queue[1].request_id)]
               ELSE [x \in DOMAIN subs \ {s} |-> subs[x]]
    /\ bin_channels' = IF (subs[s].open /\ Len(subs[s].queue) <= channel_capacity)
                            \/ receiver_count(subs, subs[s].chan) > 1
                       THEN bin_channels
                       ELSE remove_channel(bin_channels,
                                {k \in DOMAIN bin_channels : bin_channels[k] = subs[s].chan})
    /\ UNCHANGED <<now, bins, requests, seq, created, issued, chans,
                   conns, tasks, sweep, insertLog, purged, last>>

\* one turn of handle_socket's loop: recv a message and send it to the socket;
\* a failed send ends the task and drops its Receiver, and so does recv
\* returning Err(Lagged) because more than channel_capacity messages were
\* sent since the Receiver last took one (the queue stands for the messages
\* sent since then, overwritten ones included)
WsForward(s) ==
    /\ last = NoResponse
    /\ s \in DOMAIN subs
    /\ subs[s].queue # <<>>
    /\ subs' = IF subs[s].open /\ Len(subs[s].queue) <= channel_capacity
               THEN [subs EXCEPT ![s].queue = Tail(@),
                                 ![s].got = Append(@, subs[s].queue[1].request_id)]
               ELSE [x \in DOMAIN subs \ {s} |-> subs[x]]
    /\ UNCHANGED <<now, bins, requests, seq, created, issued, bin_channels, chans,
                   conns, tasks, sweep, insertLog, purged, last>>

(* ----------------------------- cleanup task ---------------------------- *)
\* the SELECT without its WHERE clause
select_every_bin(bs, cutoff) == {b.id : b \in bs}

\* SELECT id FROM bins WHERE last_updated < cutoff
select_expired(bs, cutoff) == {b.id : b \in {x \in bs : x.last_updated < cutoff}}

\* one pass of the loop of start_cleanup_task
Cleanup ==
    LET cutoff == now - bin_expiry_hours
        expired_bins == select_expired(bins, cutoff)
        dead == {id \in expired_bins : ~has_active_connections(bin_channels, subs, id)}
    IN /\ last = NoResponse
       /\ dead # {}
       /\ bins' = {b \in bins : b.id \notin dead}
       /\ bin_channels' = remove_channel(bin_channels, dead)
       /\ purged' = purged \cup dead
       /\ UNCHANGED <<now, requests, seq, created, issued, chans, conns, subs, tasks,
                      sweep, insertLog, last>>

\* an hour passes
Tick ==
    /\ last = NoResponse
    /\ now < MaxTime
    /\ now' = now + 1
    /\ UNCHANGED <<bins, requests, seq, created, issued, bin_channels, chans, conns,
                   subs, tasks, sweep, insertLog, purged, last>>

\* the payloads of the calls: both at the limit, the body over, the headers over
Payloads == {<<h, b>> \in HeaderLists \X Bodies :
                Len(b) <= max_body_size \/ Len(h[1][2]) <= max_headers_size - 8}

Next ==
    \/ CreateBin
    \/ \E id \in IdStrings, p \in Payloads : LogRequest(id, p[1], p[2])
    \/ \E id \in IdStrings : InspectBin(id)
    \/ \E id \in IdStrings : DeleteBin(id)
    \/ \E id \in IdStrings : DeleteRequest(id)
    \/ \E id \in IdStrings : ClearBinRequests(id)
    \/ Return
    \/ Cleanup
    \/ Tick

Spec == Init /\ [][Next]_vars

(* -------------- log_request, one database statement per step ----------- *)
\* the captures the clients address in SpecConc: the bins and one more id
ConcIds == {Hyphenated(u) : u \in 1..(MaxBins + 1)}
\* the path segments of captures and websocket upgrades in SpecConc
ConcPaths == ConcIds \cup {NotAUuid}

\* validate_bin_id, check_bin_exists and process_request_data: the call ends
\* with 400, 404 or 413, or goes on to the INSERT as task t
log_check(limit, t, id, headers, body) ==
    LET status == IF validate_uuid(id) = Err THEN 400
                  ELSE IF ~check_bin_exists(bins, id) THEN 404
                  ELSE IF ~process_request_data("POST", headers, body, Err).ok THEN 413
                  ELSE 0
        data == process_request_data("POST", headers, body, new_v4(issued))
    IN /\ last = NoResponse
       /\ t \notin DOMAIN tasks
       /\ \A x \in 1..(t - 1) : x \in DOMAIN tasks
       /\ IF status # 0
          THEN /\ last' = Logged(id, status, headers, body)
               /\ UNCHANGED <<tasks, issued>>
          ELSE /\ issued - created < limit
               /\ tasks' = tasks @@ (t :> [pc |-> "store", id |-> id, data |-> data,
                                           count |-> 0, stamp |-> 0,
                                           headers |-> headers, body |-> body])
               /\ issued' = issued + 1
               /\ UNCHANGED last
       /\ UNCHANGED <<now, bins, requests, seq, created, bin_channels, chans, conns,
                      subs, sweep, insertLog, purged>>

\* log_request refreshing the bin as soon as it found it, before the size checks
LogCheckRefreshFirst(t, id, headers, body) ==
    LET status == IF validate_uuid(id) = Err THEN 400
                  ELSE IF ~check_bin_exists(bins, id) THEN 404
                  ELSE IF ~process_request_data("POST", headers, body, Err).ok THEN 413
                  ELSE 0
        data == process_request_data("POST", headers, body, new_v4(issued))
    IN /\ last = NoResponse
       /\ t \notin DOMAIN tasks
       /\ \A x \in 1..(t - 1) : x \in DOMAIN tasks
       /\ IF status # 0
          THEN /\ last' = Logged(id, status, headers, body)
               /\ UNCHANGED <<tasks, issued>>
          ELSE /\ issued - created < MaxInserts
               /\ tasks' = tasks @@ (t :> [pc |-> "store", id |-> id, data |-> data,
                                           count |-> 0, stamp |-> 0,
                                           headers |-> headers, body |-> body])
               /\ issued' = issued + 1
               /\ UNCHANGED last
       /\ bins' = IF status \in {400, 404} THEN bins ELSE update_last_updated(bins, id, now)
       /\ UNCHANGED <<now, requests, seq, created, bin_channels, chans, conns,
                      subs, sweep, insertLog, purged>>

LogCheck(t, id, headers, body) == log_check(MaxInserts, t, id, headers, body)

\* store_request_in_db
LogStore(t) ==
    /\ last = NoResponse
    /\ t \in DOMAIN tasks
    /\ tasks[t].pc = "store"
    /\ requests' = store_request_in_db(requests, seq, tasks[t].id, tasks[t].data, now)
    /\ seq' = seq + 1
    /\ insertLog' = Append(insertLog, <<tasks[t].id, tasks[t].data.request_id>>)
    /\ tasks' = [tasks EXCEPT ![t].pc = "count"]
    /\ UNCHANGED <<now, bins, created, issued, bin_channels, chans, conns, subs,
                   sweep, purged, last>>

\* enforce_request_limit comparing the count with one more than the limit
LogCountLax(t) ==
    /\ last = NoResponse
    /\ t \in DOMAIN tasks
    /\ tasks[t].pc = "count"
    /\ LET count == count_requests(requests, tasks[t].id)
       IN tasks' = [tasks EXCEPT ![t].count = count,
                                 ![t].pc = IF count > max_requests_per_bin + 1
                                           THEN "evict" ELSE "update"]
    /\ UNCHANGED <<now, bins, requests, seq, created, issued, bin_channels, chans,
                   conns, subs, sweep, insertLog, purged, last>>

\* enforce_request_limit: the COUNT
LogCount(t) ==
    /\ last = NoResponse
    /\ t \in DOMAIN tasks
    /\ tasks[t].pc = "count"
    /\ LET count == count_requests(requests, tasks[t].id)
       IN tasks' = [tasks EXCEPT ![t].count = count,
                                 ![t].pc = IF count > max_requests_per_bin
                                           THEN "evict" ELSE "update"]
    /\ UNCHANGED <<now, bins, requests, seq, created, issued, bin_channels, chans,
                   conns, subs, sweep, insertLog, purged, last>>

\* enforce_request_limit: the DELETE of the excess counted before
LogEvict(t) ==
    /\ last = NoResponse
    /\ t \in DOMAIN tasks
    /\ tasks[t].pc = "evict"
    /\ requests' = delete_oldest(requests, tasks[t].id,
                                 tasks[t].count - max_requests_per_bin)
    /\ tasks' = [tasks EXCEPT ![t].pc = "update"]
    /\ UNCHANGED <<now, bins, seq, created, issued, bin_channels, chans, conns,
                   subs, sweep, insertLog, purged, last>>

\* update_last_updated reads the clock before it awaits its UPDATE
LogStamp(t) ==
    /\ last = NoResponse
    /\ t \in DOMAIN tasks
    /\ tasks[t].pc = "update"
    /\ tasks' = [tasks EXCEPT ![t].stamp = now, ![t].pc = "write"]
    /\ UNCHANGED <<now, bins, requests, seq, created, issued, bin_channels, chans,
                   conns, subs, sweep, insertLog, purged, last>>

\* the UPDATE of update_last_updated, send_websocket_notification and the
\* response
LogFinish(t) ==
    /\ last = NoResponse
    /\ t \in DOMAIN tasks
    /\ tasks[t].pc = "write"
    /\ bins' = update_last_updated(bins, tasks[t].id, tasks[t].stamp)
    /\ subs' = send_websocket_notification(subs, bin_channels, tasks[t].id,
                                           tasks[t].data, now)
    /\ tasks' = [x \in DOMAIN tasks \ {t} |-> tasks[x]]
    /\ last' = Logged(tasks[t].id,
                      status_after_publish(send_result(subs, bin_channels, tasks[t].id)),
                      tasks[t].headers, tasks[t].body)
    /\ UNCHANGED <<now, requests, seq, created, issued, bin_channels, chans, conns,
                   sweep, insertLog, purged>>

(* ------------------ the cleanup task, one step at a time ---------------- *)
\* the SELECT with last_updated <= cutoff
CleanupSelectAtCutoff ==
    /\ last = NoResponse
    /\ sweep.pc = "sleep"
    /\ {b.id : b \in {x \in bins : x.last_updated <= now - bin_expiry_hours}} # {}
    /\ sweep' = [pc |-> "scan",
                 expired |-> {b.id : b \in {x \in bins :
                                 x.last_updated <= now - bin_expiry_hours}},
                 victim |-> NoId, seen |-> bins, at |-> now, removed |-> {},
                 listing |-> "ok", failed |-> {}]
    /\ UNCHANGED <<now, bins, requests, seq, created, issued, bin_channels, chans,
                   conns, subs, tasks, insertLog, purged, last>>

\* the SELECT of the expired bins
CleanupSelect ==
    /\ last = NoResponse
    /\ sweep.pc = "sleep"
    /\ select_expired(bins, now - bin_expiry_hours) # {}
    /\ sweep' = [pc |-> "scan", expired |-> select_expired(bins, now - bin_expiry_hours),
                 victim |-> NoId, seen |-> bins, at |-> now, removed |-> {},
                 listing |-> "ok", failed |-> {}]
    /\ UNCHANGED <<now, bins, requests, seq, created, issued, bin_channels, chans,
                   conns, subs, tasks, insertLog, purged, last>>

\* the test with unwrap_or(true): a bin without a channel counts as connected
CleanupCheckMissingIsLive(bin_id) ==
    /\ last = NoResponse
    /\ sweep.pc = "scan"
    /\ bin_id \in sweep.expired
    /\ sweep' = IF bin_id \notin DOMAIN bin_channels
                   \/ has_active_connections(bin_channels, subs, bin_id)
                THEN [sweep EXCEPT !.expired = @ \ {bin_id}]
                ELSE [sweep EXCEPT !.pc = "delete", !.expired = @ \ {bin_id},
                                   !.victim = bin_id]
    /\ UNCHANGED <<now, bins, requests, seq, created, issued, bin_channels, chans,
                   conns, subs, tasks, insertLog, purged, last>>

\* the loop takes the next expired bin and looks for active connections
CleanupCheck(bin_id) ==
    /\ last = NoResponse
    /\ sweep.pc = "scan"
    /\ bin_id \in sweep.expired
    /\ sweep' = IF has_active_connections(bin_channels, subs, bin_id)
                THEN [sweep EXCEPT !.expired = @ \ {bin_id}]
                ELSE [sweep EXCEPT !.pc = "delete", !.expired = @ \ {bin_id},
                                   !.victim = bin_id]
    /\ UNCHANGED <<now, bins, requests, seq, created, issued, bin_channels, chans,
                   conns, subs, tasks, insertLog, purged, last>>

\* the DELETE without bin_channels.remove
CleanupDeleteKeepsChannel ==
    /\ last = NoResponse
    /\ sweep.pc = "delete"
    /\ bins' = {b \in bins : b.id # sweep.victim}
    /\ purged' = purged \cup {sweep.victim}
    /\ sweep' = [sweep EXCEPT !.pc = "scan",
                              !.removed = @ \cup {b \in bins : b.id = sweep.victim}]
    /\ UNCHANGED <<now, requests, seq, created, issued, bin_channels, chans, conns,
                   subs, tasks, insertLog, last>>

\* DELETE FROM bins WHERE id = ? and bin_channels.remove
CleanupDelete ==
    /\ last = NoResponse
    /\ sweep.pc = "delete"
    /\ bins' = {b \in bins : b.id # sweep.victim}
    /\ bin_channels' = remove_channel(bin_channels, {sweep.victim})
    /\ purged' = purged \cup {sweep.victim}
    /\ sweep' = [sweep EXCEPT !.pc = "scan",
                              !.removed = @ \cup {b \in bins : b.id = sweep.victim}]
    /\ UNCHANGED <<now, requests, seq, created, issued, chans, conns, subs, tasks,
                   insertLog, last>>

\* the list is exhausted: sleep until the next pass
CleanupSleep ==
    /\ last = NoResponse
    /\ sweep.pc = "scan"
    /\ sweep.expired = {}
    /\ sweep' = Idle
    /\ UNCHANGED <<now, bins, requests, seq, created, issued, bin_channels, chans,
                   conns, subs, tasks, insertLog, purged, last>>

NextConc ==
    \/ CreateBin
    \/ \E t \in 1..MaxTasks, id \in ConcPaths, p \in Payloads : LogCheck(t, id, p[1], p[2])
    \/ \E t \in 1..MaxTasks : LogStore(t)
    \/ \E t \in 1..MaxTasks : LogCount(t)
    \/ \E t \in 1..MaxTasks : LogEvict(t)
    \/ \E t \in 1..MaxTasks : LogStamp(t)
    \/ \E t \in 1..MaxTasks : LogFinish(t)
    \/ \E id \in ConcIds : DeleteBin(id)
    \/ Return
    \/ \E id \in ConcPaths : WsConnect(id)
    \/ \E s \in 1..MaxSubs : ClientClose(s)
    \/ \E s \in 1..MaxSubs : WsForward(s)
    \/ CleanupSelect
    \/ \E id \in ConcIds : CleanupCheck(id)
    \/ CleanupDelete
    \/ CleanupSleep
    \/ Tick

SpecConc == Init /\ [][NextConc]_vars

(* ------- the refreshes of last_updated: captures step by step, clears ---- *)
NextTouch ==
    \/ CreateBin
    \/ \E t \in 1..MaxTasks, id \in ConcIds, p \in Payloads : LogCheck(t, id, p[1], p[2])
    \/ \E t \in 1..MaxTasks : LogStore(t)
    \/ \E t \in 1..MaxTasks : LogCount(t)
    \/ \E t \in 1..MaxTasks : LogEvict(t)
    \/ \E t \in 1..MaxTasks : LogStamp(t)
    \/ \E t \in 1..MaxTasks : LogFinish(t)
    \/ \E id \in ConcIds : ClearBinRequests(id)
    \/ Return
    \/ Tick

SpecTouch == Init /\ [][NextTouch]_vars

(* ------------------- handlers whose database statement fails ---------- *)
\* log_request notifying the observers although its INSERT failed
LogRequestInsertFailsNotifies(id, headers, body) ==
    /\ last = NoResponse
    /\ validate_uuid(id) # Err
    /\ check_bin_exists(bins, id)
    /\ process_request_data("POST", headers, body, Err).ok
    /\ subs' = send_websocket_notification(subs, bin_channels, id,
                    process_request_data("POST", headers, body, new_v4(issued)), now)
    /\ last' = [Logged(id, 404, headers, body) EXCEPT !.fault = "insert"]
    /\ UNCHANGED <<now, bins, requests, seq, created, issued, bin_channels, chans,
                   conns, tasks, sweep, insertLog, purged>>

\* log_request: store_request_in_db returns Err; nothing was inserted
LogRequestInsertFails(id, headers, body) ==
    /\ last = NoResponse
    /\ validate_uuid(id) # Err
    /\ check_bin_exists(bins, id)
    /\ process_request_data("POST", headers, body, Err).ok
    /\ last' = [Logged(id, 404, headers, body) EXCEPT !.fault = "insert"]
    /\ UNCHANGED <<now, bins, requests, seq, created, issued, bin_channels, chans,
                   conns, subs, tasks, sweep, insertLog, purged>>

\* log_request with the error of enforce_request_limit returned to the caller
LogRequestLimitPropagates(id, headers, body) ==
    /\ last = NoResponse
    /\ validate_uuid(id) # Err
    /\ check_bin_exists(bins, id)
    /\ seq < MaxInserts
    /\ LET data == process_request_data("POST", headers, body, new_v4(issued))
       IN /\ data.ok
          /\ requests' = store_request_in_db(requests, seq, id, data, now)
          /\ insertLog' = Append(insertLog, <<id, data.request_id>>)
    /\ seq' = seq + 1
    /\ issued' = issued + 1
    /\ last' = [Logged(id, 500, headers, body) EXCEPT !.fault = "limit"]
    /\ UNCHANGED <<now, bins, created, bin_channels, chans, conns, subs, tasks,
                   sweep, purged>>

\* log_request: the INSERT succeeded and enforce_request_limit returns Err from
\* its COUNT or its DELETE; no row is evicted, the error is logged
LogRequestLimitFails(id, headers, body) ==
    /\ last = NoResponse
    /\ validate_uuid(id) # Err
    /\ check_bin_exists(bins, id)
    /\ seq < MaxInserts
    /\ LET data == process_request_data("POST", headers, body, new_v4(issued))
       IN /\ data.ok
          /\ requests' = store_request_in_db(requests, seq, id, data, now)
          /\ subs' = send_websocket_notification(subs, bin_channels, id, data, now)
          /\ insertLog' = Append(insertLog, <<id, data.request_id>>)
    /\ seq' = seq + 1
    /\ issued' = issued + 1
    /\ bins' = update_last_updated(bins, id, now)
    /\ last' = [Logged(id, status_after_publish(send_result(subs, bin_channels, id)),
                       headers, body) EXCEPT !.fault = "limit"]
    /\ UNCHANGED <<now, created, bin_channels, chans, conns, tasks, sweep, purged>>

\* delete_bin: the DELETE returns Err
DeleteBinFails(id) ==
    /\ last = NoResponse
    /\ validate_uuid(id) # Err
    /\ last' = [Response("delete_bin", id, 404) EXCEPT !.fault = "delete"]
    /\ UNCHANGED <<now, bins, requests, seq, created, issued, bin_channels, chans,
                   conns, subs, tasks, sweep, insertLog, purged>>

\* delete_request: the DELETE returns Err
DeleteRequestFails(id) ==
    /\ last = NoResponse
    /\ validate_uuid(id) # Err
    /\ last' = [Response("delete_request", id, 404) EXCEPT !.fault = "delete"]
    /\ UNCHANGED <<now, bins, requests, seq, created, issued, bin_channels, chans,
                   conns, subs, tasks, sweep, insertLog, purged>>

NextFail ==
    \/ CreateBin
    \/ \E id \in ConcIds, p \in Payloads : LogRequest(id, p[1], p[2])
    \/ \E id \in ConcIds, p \in Payloads : LogRequestInsertFails(id, p[1], p[2])
    \/ \E id \in ConcIds, p \in Payloads : LogRequestLimitFails(id, p[1], p[2])
    \/ \E id \in IdStrings : DeleteBin(id)
    \/ \E id \in IdStrings : DeleteBinFails(id)
    \/ \E id \in IdStrings : DeleteRequest(id)
    \/ \E id \in IdStrings : DeleteRequestFails(id)
    \/ \E id \in ConcIds : WsConnect(id)
    \/ Return
    \/ Tick

SpecFail == Init /\ [][NextFail]_vars

(* ------------- concurrent captures into one bin, step by step ---------- *)
NextCap ==
    \/ CreateBin
    \/ \E t \in 1..MaxCaptures, id \in ConcIds, p \in Payloads :
           LogCheck(t, id, p[1], p[2])
    \/ \E t \in 1..MaxCaptures : LogStore(t)
    \/ \E t \in 1..MaxCaptures : LogCount(t)
    \/ \E t \in 1..MaxCaptures : LogEvict(t)
    \/ \E t \in 1..MaxCaptures : LogStamp(t)
    \/ \E t \in 1..MaxCaptures : LogFinish(t)
    \/ \E id \in ConcIds : WsConnect(id)
    \/ \E s \in 1..MaxSubs : WsForward(s)
    \/ Return

SpecCap == Init /\ [][NextCap]_vars

(* -------- websocket connections, one registry operation per step ------- *)
\* handle_socket replacing the entry of the bin by a new channel
\* (DashMap::insert in place of entry().or_insert_with())
WsEntryInsert(t, bin_id) ==
    /\ last = NoResponse
    /\ t \notin DOMAIN tasks
    /\ \A x \in 1..(t - 1) : x \in DOMAIN tasks
    /\ conns + Cardinality(DOMAIN tasks) < MaxConns
    /\ bin_channels' = [k \in DOMAIN bin_channels \cup {bin_id} |->
                           IF k = bin_id THEN chans + 1 ELSE bin_channels[k]]
    /\ chans' = chans + 1
    /\ tasks' = tasks @@ (t :> [pc |-> "subscribe", id |-> bin_id, chan |-> chans + 1])
    /\ UNCHANGED <<now, bins, requests, seq, created, issued, conns, subs, sweep,
                   insertLog, purged, last>>

\* handle_socket: bin_channels.entry(bin_id).or_insert_with(..).clone(); the
\* task holds a Sender of the channel it found or created
WsEntry(t, bin_id) ==
    /\ last = NoResponse
    /\ t \notin DOMAIN tasks
    /\ \A x \in 1..(t - 1) : x \in DOMAIN tasks
    /\ conns + Cardinality(DOMAIN tasks) < MaxConns
    /\ LET fresh == bin_id \notin DOMAIN bin_channels
           chan == IF fresh THEN chans + 1 ELSE bin_channels[bin_id]
       IN /\ bin_channels' = IF fresh THEN bin_channels @@ (bin_id :> chan)
                             ELSE bin_channels
          /\ chans' = IF fresh THEN chans + 1 ELSE chans
          /\ tasks' = tasks @@ (t :> [pc |-> "subscribe", id |-> bin_id, chan |-> chan])
    /\ UNCHANGED <<now, bins, requests, seq, created, issued, conns, subs, sweep,
                   insertLog, purged, last>>

\* handle_socket: sender.subscribe(); the task now holds a Receiver
WsSubscribe(t) ==
    /\ last = NoResponse
    /\ t \in DOMAIN tasks
    /\ tasks[t].pc = "subscribe"
    /\ subs' = subs @@ ((conns + 1) :> [chan |-> tasks[t].chan, queue |-> <<>>,
                                        open |-> TRUE, got |-> <<>>])
    /\ conns' = conns + 1
    /\ tasks' = [x \in DOMAIN tasks \ {t} |-> tasks[x]]
    /\ UNCHANGED <<now, bins, requests, seq, created, issued, bin_channels, chans,
                   sweep, insertLog, purged, last>>

NextHub ==
    \/ CreateBin
    \/ \E t \in 1..MaxConns, id \in ConcIds : WsEntry(t, id)
    \/ \E t \in 1..MaxConns : WsSubscribe(t)
    \/ \E s \in 1..MaxConns : ClientClose(s)
    \/ \E s \in 1..MaxConns : WsForward(s)
    \/ \E id \in ConcIds, p \in Payloads : LogRequest(id, p[1], p[2])
    \/ \E id \in ConcIds : DeleteBin(id)
    \/ Return
    \/ CleanupSelect
    \/ \E id \in ConcIds : CleanupCheck(id)
    \/ CleanupDelete
    \/ CleanupSleep
    \/ Tick

SpecHub == Init /\ [][NextHub]_vars

(* ---------- the cleanup task over several bins, statements failing ----- *)
\* the ids of the bins of SpecSweep, where only bins are given ids
SweepIds == {Hyphenated(u) : u \in 1..MaxSweepBins}

\* the SELECT of the expired bins returns Err: warn, sleep, continue
CleanupSelectFails ==
    /\ last = NoResponse
    /\ sweep.pc = "sleep"
    /\ sweep' = [Idle EXCEPT !.listing = "err"]
    /\ UNCHANGED <<now, bins, requests, seq, created, issued, bin_channels, chans,
                   conns, subs, tasks, insertLog, purged, last>>

\* a failed DELETE ending the pass
CleanupDeleteAborts ==
    /\ last = NoResponse
    /\ sweep.pc = "delete"
    /\ sweep' = [sweep EXCEPT !.pc = "scan", !.expired = {},
                              !.failed = @ \cup {[id |-> sweep.victim,
                                                  left |-> sweep.expired]}]
    /\ UNCHANGED <<now, bins, requests, seq, created, issued, bin_channels, chans,
                   conns, subs, tasks, insertLog, purged, last>>

\* DELETE FROM bins WHERE id = ? returns Err: warn, and on to the next bin
CleanupDeleteFails ==
    /\ last = NoResponse
    /\ sweep.pc = "delete"
    /\ sweep' = [sweep EXCEPT !.pc = "scan",
                              !.failed = @ \cup {[id |-> sweep.victim,
                                                  left |-> sweep.expired]}]
    /\ UNCHANGED <<now, bins, requests, seq, created, issued, bin_channels, chans,
                   conns, subs, tasks, insertLog, purged, last>>

NextSweep ==
    \/ create_bin(MaxSweepBins)
    \/ \E id \in SweepIds : ClearBinRequests(id)
    \/ \E t \in 1..MaxConns, id \in SweepIds : WsEntry(t, id)
    \/ \E t \in 1..MaxConns : WsSubscribe(t)
    \/ Return
    \/ CleanupSelect
    \/ CleanupSelectFails
    \/ \E id \in SweepIds : CleanupCheck(id)
    \/ CleanupDelete
    \/ CleanupDeleteFails
    \/ CleanupSleep
    \/ Tick

SpecSweep == Init /\ [][NextSweep]_vars

(* ------------- SpecConc under the scheduling of the runtime ------------ *)
\* a spawned task that can take its next step is polled: the socket tasks,
\* the log_request tasks past their checks and the cleanup task are each
\* weakly fair; what the clients do and the passing of time are not
SpecLive ==
    /\ Init /\ [][NextConc]_vars
    /\ \A s \in 1..MaxSubs : WF_vars(WsForward(s))
    /\ \A t \in 1..MaxTasks :
           WF_vars(LogStore(t) \/ LogCount(t) \/ LogEvict(t) \/ LogStamp(t) \/ LogFinish(t))
    /\ WF_vars(CleanupSelect \/ (\E id \in ConcIds : CleanupCheck(id))
                  \/ CleanupDelete \/ CleanupSleep)
    /\ WF_vars(Return)

(* ------------------------------ properties ----------------------------- *)
\* a step in which the handler op answered
Answered(op) == last = NoResponse /\ last'.op = op
\* the ids of the rows a bin holds
LiveIds(rs, bin_id) == {r.request_id : r \in {x \in rs : x.bin_id = bin_id}}
\* the number of rows a bin holds
Held(rs, bin_id) == Cardinality(LiveIds(rs, bin_id))
\* table bs holds a row with this id
BinIn(bs, id) == \E b \in bs : b.id = id
\* the place of a request in the order of all inserts
InsertPos(rid) == CHOOSE i \in DOMAIN insertLog : insertLog[i][2] = rid
\* the requests inserted into a bin, oldest first
InsertsOf(bin_id) == SelectSeq(insertLog, LAMBDA e : e[1] = bin_id)

\* C1: inspect_bin answers with exactly the rows the bin holds, each once, and
\* a row inserted earlier stands before a row inserted later, whatever their
\* timestamps are.
C1_InspectInInsertionOrder ==
    (last.op = "inspect_bin" /\ last.status = 200) =>
        /\ {last.rows[i].request_id : i \in DOMAIN last.rows} = LiveIds(requests, last.id)
        /\ Len(last.rows) = Cardinality(LiveIds(requests, last.id))
        /\ \A i, j \in DOMAIN last.rows :
              i < j => InsertPos(last.rows[i].request_id) < InsertPos(last.rows[j].request_id)

\* inspect_bin answered with two rows that carry the same timestamp
C1_Witness ==
    /\ last.op = "inspect_bin"
    /\ Len(last.rows) >= 2
    /\ last.rows[1].timestamp = last.rows[2].timestamp

\* C2: a bin that took more than max_requests_per_bin captures, one after
\* another, and lost no row to a delete, holds exactly the
\* max_requests_per_bin requests inserted last.
C2_CapKeepsNewest ==
    \A k \in DOMAIN insertLog :
        LET b == insertLog[k][1]
            ins == InsertsOf(b)
            n == Len(ins)
        IN (b \notin purged /\ n > max_requests_per_bin) =>
              /\ LiveIds(requests, b) = {ins[i][2] : i \in (n - max_requests_per_bin + 1)..n}
              /\ Held(requests, b) = max_requests_per_bin

\* a bin took one capture more than the cap and nothing was deleted from it
C2_Witness ==
    \E k \in DOMAIN insertLog :
        /\ insertLog[k][1] \notin purged
        /\ Len(InsertsOf(insertLog[k][1])) > max_requests_per_bin

\* C6: every stored request belongs to a bin that exists; a deleted bin leaves
\* no request behind.
C6_NoRequestOfDeletedBin ==
    \A r \in requests : BinIn(bins, r.bin_id)

\* C7: for a capture into an existing bin, a body of max_body_size bytes with
\* serialized headers of max_headers_size bytes is accepted (200); one byte
\* more in either is answered 413.
C7_SizeBoundaries ==
    (last.op = "log_request" /\ BinIn(bins, last.id)) =>
        /\ (last.body_bytes = max_body_size /\ last.headers_bytes = max_headers_size)
              => last.status = 200
        /\ (last.body_bytes = max_body_size + 1 \/ last.headers_bytes = max_headers_size + 1)
              => last.status = 413

\* a capture into an existing bin was answered 413, and one was stored
C7_Witness ==
    /\ last.op = "log_request"
    /\ last.status = 413
    /\ last.body_bytes = max_body_size
    /\ last.headers_bytes = max_headers_size + 1
    /\ BinIn(bins, last.id)
    /\ \E r \in requests :
          Len(r.body) = max_body_size /\ Len(r.headers) = max_headers_size

\* C8: delete_bin and delete_request answer 200 for an id that is live and
\* remove it; for a well-formed id that is not live they answer 404 and change
\* no bin, request or channel; an id that was removed never becomes live again.
C8_DeleteOnceThenNotFound ==
    [][/\ Answered("delete_bin") =>
             LET key == to_string(validate_uuid(last'.id))
             IN IF validate_uuid(last'.id) = Err THEN last'.status = 400
                ELSE IF BinIn(bins, key)
                THEN last'.status = 200 /\ ~BinIn(bins', key)
                ELSE last'.status = 404
                     /\ UNCHANGED <<bins, requests, bin_channels, subs>>
       /\ Answered("delete_request") =>
             LET uuid == validate_uuid(last'.id)
             IN IF uuid = Err THEN last'.status = 400
                ELSE IF \E r \in requests : r.request_id = uuid
                THEN last'.status = 200 /\ ~\E r \in requests' : r.request_id = uuid
                ELSE last'.status = 404
                     /\ UNCHANGED <<bins, requests, bin_channels, subs>>
       /\ \A u \in 1..issued :
             /\ ~BinIn(bins, to_string(u)) => ~BinIn(bins', to_string(u))
             /\ (~\E r \in requests : r.request_id = u) => ~\E r \in requests' : r.request_id = u
      ]_vars

\* delete_bin was called again on a bin it had deleted
C8_Witness ==
    /\ last.op = "delete_bin"
    /\ last.status = 404
    /\ to_string(validate_uuid(last.id)) \in purged

\* C9: a successful clear_bin_requests reports the number of rows the bin
\* held, leaves the bin with none, and inspect_bin then yields the empty list.
C9_ClearRemovesAll ==
    [][(Answered("clear_bin_requests") /\ last'.status = 200) =>
          /\ last'.count = Held(requests, last'.id)
          /\ Held(requests', last'.id) = 0
          /\ BinIn(bins', last'.id)
          /\ select_requests(requests', last'.id) = <<>>
          /\ requests' \subseteq requests]_vars

\* clear_bin_requests removed two rows
C9_Witness ==
    /\ last.op = "clear_bin_requests"
    /\ last.status = 200
    /\ last.count = 2
    /\ Held(requests, last.id) = 0

\* C10: a successful delete_request sets last_updated of the bin that owned
\* the request to the time of the call.
C10_DeleteRequestRefreshesBin ==
    [][(Answered("delete_request") /\ last'.status = 200) =>
          \A r \in requests \ requests' :
             \A b \in bins' : b.id = r.bin_id => b.last_updated = now]_vars

\* a websocket task holds a Receiver of the channel registered for the bin
Observed(bin_id) ==
    /\ bin_id \in DOMAIN bin_channels
    /\ \E s \in DOMAIN subs : subs[s].chan = bin_channels[bin_id]
\* the step in which a log_request call answers without having stored a row
AnsweredAtCheck == Answered("log_request") /\ tasks' = tasks

\* C3 as claimed: no capture inserts a row for a bin that does not exist at
\* the time of the insert, and every capture whose bin is gone when it answers
\* answers 404.
C3_NoRowForMissingBin ==
    [][/\ \A r \in requests' \ requests : BinIn(bins, r.bin_id)
       /\ (Answered("log_request") /\ validate_uuid(last'.id) # Err
                /\ ~BinIn(bins, last'.id)) => last'.status = 404]_vars

\* C3, amended: a capture whose bin does not exist when check_bin_exists runs
\* is answered 404 and changes no row, bin or queue; a capture goes on to its
\* INSERT only if the check found the bin.
C3_MissingAtCheckIsNotFound ==
    [][/\ (AnsweredAtCheck /\ validate_uuid(last'.id) # Err
                /\ ~BinIn(bins, last'.id)) =>
             /\ last'.status = 404
             /\ UNCHANGED <<requests, seq, bins, subs, insertLog>>
       /\ \A t \in DOMAIN tasks' \ DOMAIN tasks : BinIn(bins, tasks'[t].id)
      ]_vars

\* a capture into a bin that had been deleted was answered 404
C3_Witness ==
    /\ last.op = "log_request"
    /\ last.status = 404
    /\ last.id \in purged
    /\ requests # {}

\* C4: when the cleanup task deletes a bin, no websocket task is attached to
\* the bin's channel.
C4_CleanupSparesObservedBin ==
    [][(sweep.pc = "delete" /\ sweep'.pc = "scan"
            /\ BinIn(bins, sweep.victim)) => ~Observed(sweep.victim)]_vars

\* C5: a pass of the cleanup task lists every bin whose last_updated is more
\* than bin_expiry_hours old, and deletes each listed bin that has no attached
\* websocket task when the pass comes to it, whether the bin has no channel or
\* a channel without receivers.
C5_ExpiredUnobservedIsDeleted ==
    [][/\ (sweep.pc = "sleep" /\ sweep'.pc = "scan") =>
             sweep'.expired = {b.id : b \in {x \in bins :
                                   x.last_updated + bin_expiry_hours < now}}
       /\ \A id \in sweep.expired :
             (sweep.pc = "scan" /\ id \notin sweep'.expired /\ ~Observed(id)) =>
                sweep'.pc = "delete" /\ sweep'.victim = id
       /\ (sweep.pc = "delete" /\ sweep'.pc = "scan") =>
             ~BinIn(bins', sweep.victim)
      ]_vars

\* the cleanup task deleted a bin whose only websocket task had ended, and
\* dropped the bin's channel
C5_Witness ==
    /\ sweep.pc = "scan"
    /\ \E b \in sweep.removed : b.id = sweep.victim
    /\ ~BinIn(bins, sweep.victim)
    /\ conns = 1
    /\ chans = 1
    /\ subs = <<>>
    /\ bin_channels = <<>>


C12_RejectedCaptureChangesNothing ==
    [][(Answered("log_request") /\ last'.status \in {400, 413}) =>
          UNCHANGED <<requests, seq, bins, subs, bin_channels, tasks, insertLog>>]_vars

\* a capture into an existing bin with a stored request and an attached
\* subscriber was answered 413 an hour after the bin's last refresh
C12_Witness ==
    /\ last.op = "log_request"
    /\ last.status = 413
    /\ Observed(last.id)
    /\ \E r \in requests : r.bin_id = last.id
    /\ \E b \in bins : b.id = last.id /\ b.last_updated < now

\* C13: every key of the channel registry is a well-formed identifier: no
\* operation uses a malformed path segment as a key.
C13_RegistryKeysAreValid ==
    \A k \in DOMAIN bin_channels : validate_uuid(k) # Err


\* C14: when the INSERT of a capture or the DELETE of delete_bin or
\* delete_request fails, the caller gets a status of its own (500), not the
\* 404 of an id that matches nothing, and the one attempt changed nothing.
C14_StorageErrorIsNotNotFound ==
    last.fault \in {"insert", "delete"} => last.status = 500

\* C15: a capture whose INSERT succeeded and whose enforce_request_limit failed
\* answers 200, its row is stored, the bin's last_updated is the time of the
\* capture and every subscriber of the bin's channel has the notification.
C15_LimitFailureKeepsCapture ==
    [][(Answered("log_request") /\ last'.fault = "limit") =>
          /\ last'.status = 200
          /\ requests \subseteq requests'
          /\ \E r \in requests' \ requests :
                /\ requests' = requests \cup {r}
                /\ r.bin_id = last'.id
                /\ Len(r.body) = last'.body_bytes
                /\ \A s \in DOMAIN subs :
                      IF last'.id \in DOMAIN bin_channels
                            /\ subs[s].chan = bin_channels[last'.id]
                      THEN /\ Len(subs'[s].queue) = Len(subs[s].queue) + 1
                           /\ subs'[s].queue[Len(subs'[s].queue)].request_id = r.request_id
                      ELSE subs'[s] = subs[s]
          /\ \A b \in bins' : b.id = last'.id => b.last_updated = now]_vars

\* the cap enforcement failed on a capture into a full bin with a subscriber:
\* the bin holds more than max_requests_per_bin requests
C15_Witness ==
    /\ last.op = "log_request"
    /\ last.fault = "limit"
    /\ last.status = 200
    /\ Observed(last.id)
    /\ Held(requests, last.id) > max_requests_per_bin
    /\ \E b \in bins : b.id = last.id /\ b.last_updated >= 1


\* C16: whatever the channel registry and the subscribers are (no channel, a
\* channel without receivers, receivers with undrained queues), a capture that
\* passed its checks can always take its last step, that step answers 200 and
\* neither adds nor removes a stored request, and the row its INSERT stored was
\* made of the request alone.
C16_CaptureIgnoresSubscribers ==
    /\ [](\A t \in DOMAIN tasks :
            (last = NoResponse /\ tasks[t].pc = "write") => ENABLED LogFinish(t))
    /\ [][/\ \A t \in DOMAIN tasks \ DOMAIN tasks' :
                /\ last'.op = "log_request"
                /\ last'.status = 200
                /\ requests' = requests
          /\ \A t \in DOMAIN tasks :
                (tasks[t].pc = "store" /\ t \in DOMAIN tasks' /\ tasks'[t].pc # "store") =>
                   requests' = requests \cup
                      {[id |-> seq + 1, bin_id |-> tasks[t].id,
                        request_id |-> tasks[t].data.request_id,
                        method |-> tasks[t].data.method,
                        headers |-> tasks[t].data.headers_json,
                        body |-> tasks[t].data.body, timestamp |-> now]}
         ]_vars

\* a capture was answered 200 although the bin's channel had lost its only
\* receiver, so that Sender::send returned an error
C16_Witness ==
    /\ last.op = "log_request"
    /\ last.status = 200
    /\ last.id \in DOMAIN bin_channels
    /\ ~Observed(last.id)
    /\ \E r \in requests : r.bin_id = last.id


\* C17: the publish of a successful capture into bin b appends exactly one
\* notification, that of the capture, to the queue of every websocket task that
\* holds a Receiver of b's registered channel, leaves every other queue as it
\* was, and adds no channel and no registry entry.
C17_PublishReachesExactlyTheBinsSubscribers ==
    [][\A t \in DOMAIN tasks \ DOMAIN tasks' :
          /\ DOMAIN subs' = DOMAIN subs
          /\ \A s \in DOMAIN subs :
                IF tasks[t].id \in DOMAIN bin_channels
                      /\ subs[s].chan = bin_channels[tasks[t].id]
                THEN /\ Len(subs'[s].queue) = Len(subs[s].queue) + 1
                     /\ SubSeq(subs'[s].queue, 1, Len(subs[s].queue)) = subs[s].queue
                     /\ subs'[s].queue[Len(subs'[s].queue)].request_id
                           = tasks[t].data.request_id
                ELSE subs'[s] = subs[s]
          /\ bin_channels' = bin_channels
          /\ chans' = chans]_vars

\* a capture was published while the only websocket task was attached to the
\* channel of another id: its queue stayed empty
C17_Witness ==
    /\ last.op = "log_request"
    /\ last.status = 200
    /\ last.id \notin DOMAIN bin_channels
    /\ bin_channels # <<>>
    /\ \E s \in DOMAIN subs : subs[s].queue = <<>>


\* C18 as claimed: every bin a cleanup pass deleted carried, when it was
\* deleted, the last_updated it had when the pass ran its SELECT.
C18_CleanupSparesRefreshedBin ==
    \A b \in sweep.removed : \A o \in sweep.seen :
        o.id = b.id => b.last_updated = o.last_updated

\* C18, amended: every bin a cleanup pass deleted was in the store when the
\* pass ran its SELECT, with a last_updated more than bin_expiry_hours before
\* that moment; a refresh after the SELECT does not save it.
C18_CleanupDeletesOnlySnapshotExpired ==
    \A b \in sweep.removed : \E o \in sweep.seen :
        o.id = b.id /\ o.last_updated + bin_expiry_hours < sweep.at

\* a cleanup pass deleted a bin that a capture had refreshed after the SELECT
C18_Witness ==
    \E b \in sweep.removed : \E o \in sweep.seen :
        /\ o.id = b.id
        /\ b.last_updated > o.last_updated
        /\ ~BinIn(bins, b.id)


\* C20: inspect_bin and clear_bin_requests called with a well-formed id that
\* matches no bin answer 404, report no row and change no request and no bin;
\* this includes the id of a bin that was deleted.
C20_MissingBinIsNotFound ==
    [][((Answered("inspect_bin") \/ Answered("clear_bin_requests"))
            /\ validate_uuid(last'.id) # Err /\ ~BinIn(bins, last'.id)) =>
          /\ last'.status = 404
          /\ last'.rows = <<>>
          /\ last'.count = 0
          /\ UNCHANGED <<requests, bins, seq>>]_vars

\* inspect_bin answered 404 for a deleted bin whose requests are still stored
C20_Witness ==
    /\ last.op = "inspect_bin"
    /\ last.status = 404
    /\ last.id \in purged
    /\ \E r \in requests : r.bin_id = last.id

(* ------------------------- concurrent captures -------------------------- *)
\* the ids of the k most recent inserts into a bin
NewestInserted(bin_id, k) ==
    LET log == InsertsOf(bin_id)
    IN {log[i][2] : i \in {j \in DOMAIN log : j > Len(log) - k}}

\* the captures into a bin between their INSERT and the end of their
\* enforce_request_limit
InFlight(bin_id) ==
    Cardinality({t \in DOMAIN tasks : tasks[t].id = bin_id /\ tasks[t].pc \in {"count", "evict"}})

\* C21 as stated: once every capture has completed and at least
\* max_requests_per_bin requests were inserted into a bin, the bin holds
\* exactly max_requests_per_bin requests and they are the most recently
\* inserted ones
C21_ConcurrentCapturesLeaveExactlyCap ==
    tasks = <<>> =>
        \A id \in ConcIds :
            Len(InsertsOf(id)) >= max_requests_per_bin =>
                /\ Held(requests, id) = max_requests_per_bin
                /\ NewestInserted(id, max_requests_per_bin) \subseteq LiveIds(requests, id)

\* C22: a bin with no capture between its INSERT and the end of its
\* enforce_request_limit holds at most max_requests_per_bin requests, and a
\* bin with such captures exceeds the limit by at most their number
C22_CountWithinCapPlusInFlight ==
    \A id \in ConcIds :
        Held(requests, id) <= max_requests_per_bin + InFlight(id)

\* a bin over its limit by the two captures in flight
C22_Witness ==
    \E id \in ConcIds :
        /\ InFlight(id) = 2
        /\ Held(requests, id) = max_requests_per_bin + 1

(* --------------------------- closed connections ------------------------- *)
\* C23 as stated: after the client of a websocket connection has closed it,
\* the connection's Receiver is eventually dropped and stops counting for
\* has_active_connections, whether or not a capture is published again
C23_ClosedConnectionIsReleased ==
    \A s \in 1..MaxSubs :
        (s \in DOMAIN subs /\ ~subs[s].open) ~> (s \notin DOMAIN subs)

(* --------------------------- the channel registry ----------------------- *)
\* C24: websocket connections that look up the same bin id while none of them
\* has subscribed yet create one registry entry between them: a lookup that
\* finds an entry takes its channel and leaves the registry alone, a lookup
\* that finds none adds one entry, the task subscribes to the channel it
\* looked up, no entry ever changes its channel, and a publish for the bin
\* puts one message in the queue of every Receiver of the entry's channel
C24_FirstSubscribersShareOneChannel ==
    [][/\ \A k \in DOMAIN bin_channels \cap DOMAIN bin_channels' :
              bin_channels'[k] = bin_channels[k]
       /\ \A t \in DOMAIN tasks' \ DOMAIN tasks :
              /\ tasks'[t].id \in DOMAIN bin_channels'
              /\ tasks'[t].chan = bin_channels'[tasks'[t].id]
              /\ DOMAIN bin_channels' = DOMAIN bin_channels \cup {tasks'[t].id}
              /\ \A u \in DOMAIN tasks :
                     tasks[u].id = tasks'[t].id /\ tasks[u].id \in DOMAIN bin_channels
                        /\ tasks[u].chan = bin_channels[tasks[u].id]
                     => tasks'[t].chan = tasks[u].chan
       /\ \A t \in DOMAIN tasks \ DOMAIN tasks' :
              /\ conns' = conns + 1
              /\ subs'[conns'].chan = tasks[t].chan
              /\ bin_channels' = bin_channels
       /\ (Answered("log_request") /\ seq' = seq + 1 /\ last'.id \in DOMAIN bin_channels)
              => \A s \in DOMAIN subs :
                    subs[s].chan = bin_channels[last'.id]
                    => Len(subs'[s].queue) = Len(subs[s].queue) + 1]_vars

\* two connections looked up the same id before either had subscribed; the
\* first has subscribed since, the second holds the same and only channel
C24_Witness ==
    /\ chans = 1
    /\ \E t \in DOMAIN tasks :
           /\ t > 1
           /\ (t - 1) \notin DOMAIN tasks
           /\ \E s \in DOMAIN subs : subs[s].chan = tasks[t].chan

\* C26 as stated: every key of the channel registry is the id of a row of
\* bins: a websocket connection adds no entry for an id that is not a bin, and
\* no entry is left once delete_bin or the cleanup task deleted its bin
C26_RegistryKeysAreBins ==
    \A k \in DOMAIN bin_channels : BinIn(bins, k)

\* C27: a registry entry disappears only in the step in which the cleanup
\* task deletes the bin of its key; a Receiver being dropped, the last one
\* included, leaves the registry as it was, and a connection made afterwards
\* finds the entry and its channel instead of creating one
C27_EntryLeavesOnlyWithItsBin ==
    [][/\ \A k \in DOMAIN bin_channels \ DOMAIN bin_channels' :
              /\ sweep.pc = "delete"
              /\ sweep.victim = k
              /\ ~BinIn(bins', k)
       /\ DOMAIN subs' # DOMAIN subs /\ DOMAIN subs' \subseteq DOMAIN subs
              => bin_channels' = bin_channels
       /\ \A t \in DOMAIN tasks' \ DOMAIN tasks :
              tasks'[t].id \in DOMAIN bin_channels
              => /\ bin_channels' = bin_channels
                 /\ chans' = chans
                 /\ tasks'[t].chan = bin_channels[tasks'[t].id]]_vars

\* the only Receiver of a channel was dropped, the entry stayed, and a second
\* connection subscribed to the same channel
C27_Witness ==
    /\ chans = 1
    /\ conns = 2
    /\ DOMAIN subs = {2}
    /\ \E k \in DOMAIN bin_channels : bin_channels[k] = subs[2].chan

(* ------------------------------ the sweep ------------------------------- *)
\* the step in which the DELETE of the cleanup task succeeded
SweepDeleted == sweep.pc = "delete" /\ sweep'.pc = "scan" /\ sweep'.failed = sweep.failed
\* the step in which the DELETE of the cleanup task failed
SweepDeleteFailed == sweep.pc = "delete" /\ sweep'.pc = "scan" /\ sweep'.failed # sweep.failed
\* the step in which the SELECT of the cleanup task failed
SweepListingFailed == sweep'.listing = "err" /\ sweep' # sweep
\* the step in which the cleanup task kept an expired bin alive
SweepKept == sweep.pc = "scan" /\ sweep'.pc = "scan" /\ sweep'.expired # sweep.expired

\* C25: the step in which the cleanup task deletes a bin also removes the
\* registry entry of that bin and of no other; the step in which it keeps a
\* bin alive and the step in which its DELETE fails leave the registry as it
\* was
C25_SweepRemovesEntryWithBinOnly ==
    [][/\ SweepDeleted
            => /\ ~BinIn(bins', sweep.victim)
               /\ DOMAIN bin_channels' = DOMAIN bin_channels \ {sweep.victim}
               /\ \A k \in DOMAIN bin_channels' : bin_channels'[k] = bin_channels[k]
       /\ SweepDeleteFailed => bin_channels' = bin_channels /\ bins' = bins
       /\ SweepKept => bin_channels' = bin_channels /\ bins' = bins]_vars

\* in one pass a bin with a registry entry was deleted and its entry removed,
\* and the entry of a bin whose DELETE failed is still there
C25_Witness ==
    /\ chans = 2
    /\ Cardinality(DOMAIN bin_channels) = 1
    /\ \E b \in sweep.removed : b.id \notin DOMAIN bin_channels
    /\ \E f \in sweep.failed : f.id \in DOMAIN bin_channels /\ BinIn(bins, f.id)

\* C28: the cleanup task takes an expired bin for connected exactly when the
\* registry has an entry for it and some websocket task holds a Receiver of
\* the entry's channel; with no entry, or an entry without Receivers, it goes
\* on to delete the bin
C28_LivenessIsAttachedReceiver ==
    [][\A id \in sweep.expired \ sweep'.expired :
          sweep.pc = "scan"
          => /\ (Observed(id) => sweep'.pc = "scan")
             /\ (~Observed(id) => sweep'.pc = "delete" /\ sweep'.victim = id)]_vars

\* the cleanup task found no connection for a bin whose channel lost its only
\* Receiver
C28_Witness ==
    /\ sweep.pc = "delete"
    /\ sweep.victim \in DOMAIN bin_channels
    /\ conns > 0
    /\ \A s \in DOMAIN subs : subs[s].chan # bin_channels[sweep.victim]

\* C29: the bins a pass selects are those whose last_updated was more than
\* bin_expiry_hours before the clock at its SELECT; the pass visits and
\* deletes selected bins only, so a bin refreshed within the window is not
\* deleted by it, whenever it was created
C29_SweepSelectsInactiveOnly ==
    [][/\ sweep.pc = "sleep" /\ sweep'.pc = "scan"
            => \A b \in bins :
                  b.id \in sweep'.expired <=> b.last_updated + bin_expiry_hours < now
       /\ sweep.pc # "sleep" => sweep'.expired \subseteq sweep.expired
       /\ sweep.pc = "scan" /\ sweep'.pc = "delete" => sweep'.victim \in sweep.expired
       /\ \A b \in {x \in bins : ~BinIn(bins', x.id)} :
              \/ Answered("delete_bin")
              \/ /\ sweep.pc = "delete"
                 /\ \E o \in sweep.seen :
                        /\ o.id = b.id
                        /\ o.last_updated + bin_expiry_hours < sweep.at]_vars

\* a pass deleted a bin and left alone a bin created earlier whose last
\* refresh was within the window at the SELECT
C29_Witness ==
    /\ sweep.pc = "scan"
    /\ sweep.expired = {}
    /\ \E b \in sweep.removed : \E o \in sweep.seen \cap bins :
           /\ o.id[2] < b.id[2]
           /\ o.last_updated + bin_expiry_hours >= sweep.at

\* C30: a failed DELETE changes neither the bins still to visit nor any bin
\* or channel, and the pass goes on: every bin still to visit can be examined
\* and a bin found without connection can be deleted; a failed SELECT leaves
\* the task asleep with nothing deleted, and the next pass can run; the task
\* is always at one of the points of its loop
C30_SweepSurvivesStorageErrors ==
    /\ [](/\ sweep.pc \in {"sleep", "scan", "delete"}
          /\ (last = NoResponse /\ sweep.pc = "scan")
                => /\ \A id \in sweep.expired : ENABLED CleanupCheck(id)
                   /\ (sweep.expired = {} => ENABLED CleanupSleep)
          /\ (last = NoResponse /\ sweep.pc = "delete") => ENABLED CleanupDelete
          /\ (last = NoResponse /\ sweep.pc = "sleep"
                 /\ \E b \in bins : b.last_updated + bin_expiry_hours < now)
                => ENABLED CleanupSelect)
    /\ [][/\ SweepDeleteFailed
               => /\ sweep'.expired = sweep.expired
                  /\ bins' = bins
                  /\ bin_channels' = bin_channels
          /\ SweepListingFailed
               => /\ sweep'.pc = "sleep"
                  /\ bins' = bins
                  /\ bin_channels' = bin_channels]_vars

\* the DELETE of one bin failed and a bin that was then still to visit was
\* deleted later in the same pass
C30_Witness ==
    \E f \in sweep.failed : \E b \in sweep.removed :
        /\ b.id \in f.left
        /\ BinIn(bins, f.id)

(* ------------------------------ subscriptions --------------------------- *)
\* C31 as stated: the Receiver of a websocket task is dropped only after the
\* connection was closed, so that a send to it fails; a task whose Receiver
\* fell more than channel_capacity messages behind stays attached
C31_SubscriptionEndsOnlyOnClosedConnection ==
    [][\A s \in DOMAIN subs \ DOMAIN subs' : ~subs[s].open]_vars

\* the request ids a websocket task has sent to its socket or still holds
Seen(sub) == sub.got \o [i \in DOMAIN sub.queue |-> sub.queue[i].request_id]

\* C32: a websocket task starts with nothing to deliver, and what it has
\* sent or holds grows only in the step in which a capture is published, by
\* the request id of that capture, which it did not have before: nothing
\* published before the subscribe reaches it, and nothing reaches it twice
C32_NoReplayNoDuplicate ==
    [][/\ \A s \in DOMAIN subs' \ DOMAIN subs : Seen(subs'[s]) = <<>>
       /\ \A s \in DOMAIN subs \cap DOMAIN subs' :
              \/ Seen(subs'[s]) = Seen(subs[s])
              \/ \E t \in DOMAIN tasks \ DOMAIN tasks' :
                     /\ tasks[t].pc = "write"
                     /\ Seen(subs'[s]) = Append(Seen(subs[s]), tasks[t].data.request_id)
                     /\ \A i \in DOMAIN Seen(subs[s]) :
                            Seen(subs[s])[i] # tasks[t].data.request_id]_vars

\* a websocket task was sent a notification, and the bin holds an earlier
\* request, published before the task subscribed, that never reached it
C32_Witness ==
    \E s \in DOMAIN subs :
        /\ subs[s].got # <<>>
        /\ \E k \in DOMAIN bin_channels :
               /\ bin_channels[k] = subs[s].chan
               /\ \E r \in requests :
                      /\ r.bin_id = k
                      /\ r.request_id < subs[s].got[1]
                      /\ \A i \in DOMAIN Seen(subs[s]) : Seen(subs[s])[i] # r.request_id

\* the request ids inserted so far
Inserted == {insertLog[i][2] : i \in DOMAIN insertLog}

NonUtf8(n) == [i \in 1..n |-> 255]
\* the bodies body.collect() can deliver: any bytes, valid UTF-8 or not
ByteBodies == Bodies \cup {NonUtf8(1), NonUtf8(max_body_size)}

NextBytes ==
    \/ CreateBin
    \/ \E id \in ConcIds, h \in HeaderLists, b \in ByteBodies : LogRequest(id, h, b)
    \/ \E id \in ConcIds : ClearBinRequests(id)
    \/ \E id \in ConcIds : WsConnect(id)
    \/ \E s \in 1..MaxSubs : WsForward(s)
    \/ Return
    \/ Tick

SpecBytes == Init /\ [][NextBytes]_vars

(* ------------------------ two bins side by side ------------------------ *)
NextPair ==
    \/ create_bin(MaxSweepBins)
    \/ \E id \in SweepIds, p \in Payloads : log_request(MaxPairInserts, id, p[1], p[2])
    \/ \E id \in SweepIds : ClearBinRequests(id)
    \/ \E id \in SweepIds : DeleteBin(id)
    \/ Return
    \/ Tick

SpecPair == Init /\ [][NextPair]_vars

\* the rows of a bin, what inspect_bin lists of it and its row in bins
StateOfBin(bs, rs, id) ==
    [rows |-> {r \in rs : r.bin_id = id},
     list |-> select_requests(rs, id),
     bin  |-> {b \in bs : b.id = id}]

(* ------------- delete_request beside captures in flight ---------------- *)
\* the path segments of delete_request calls: every Uuid new_v4 can have returned
EraseIds == {Hyphenated(u) : u \in 1..(MaxSweepBins + MaxPairInserts)}

NextErase ==
    \/ create_bin(MaxSweepBins)
    \/ \E t \in 1..MaxCaptures, id \in SweepIds, p \in Payloads :
           log_check(MaxPairInserts, t, id, p[1], p[2])
    \/ \E t \in 1..MaxCaptures : LogStore(t)
    \/ \E t \in 1..MaxCaptures : LogCount(t)
    \/ \E t \in 1..MaxCaptures : LogEvict(t)
    \/ \E t \in 1..MaxCaptures : LogStamp(t)
    \/ \E t \in 1..MaxCaptures : LogFinish(t)
    \/ \E id \in EraseIds : DeleteRequest(id)
    \/ Return

SpecErase == Init /\ [][NextErase]_vars

\* C34 as stated: the notifications a websocket task sent to its socket are
\* in the order in which their requests were inserted, the order of inspect,
\* also when captures into the bin overlap
C34_NotificationsInInsertionOrder ==
    \A s \in DOMAIN subs :
        \A i, j \in DOMAIN subs[s].got :
            i < j => InsertPos(subs[s].got[i]) < InsertPos(subs[s].got[j])

\* C36 as stated: every stored request has serialized headers of at most
\* max_headers_size bytes and a body of at most max_body_size bytes, bodies
\* with replaced non-UTF-8 bytes included
C36_StoredSizesWithinLimits ==
    \A r \in requests :
        /\ Len(r.headers) <= max_headers_size
        /\ Len(r.body) <= max_body_size

\* C35: a capture with its cap enforcement, a clear and a delete_bin on one bin
\* leave every other bin as it was: its stored requests, their order and its
\* last_updated
C35_OtherBinsUnchanged ==
    [][(last = NoResponse
          /\ last'.op \in {"log_request", "clear_bin_requests", "delete_bin"})
       => \A b \in EraseIds \ {last'.id} :
             StateOfBin(bins', requests', b) = StateOfBin(bins, requests, b)]_vars

\* a capture into one bin evicted that bin's oldest request while the other
\* bin held a request stored at an earlier time
C35_Witness ==
    /\ last.op = "log_request"
    /\ last.status = 200
    /\ Len(InsertsOf(last.id)) > max_requests_per_bin
    /\ \E b \in bins : \E r \in requests :
          /\ b.id # last.id
          /\ r.bin_id = b.id
          /\ b.last_updated < now
          /\ \E x \in bins : x.id = last.id /\ x.last_updated = now

\* C37: a capture with a malformed id is answered 400 whatever its payload; with
\* a well-formed id of no existing bin it is answered 404 also when body or
\* headers are over their limit; it is answered 413 only for an existing bin
C37_RejectionOrder ==
    last.op = "log_request" =>
        /\ (validate_uuid(last.id) = Err => last.status = 400)
        /\ ((validate_uuid(last.id) # Err /\ ~BinIn(bins, last.id)) => last.status = 404)
        /\ (last.status = 413 => (validate_uuid(last.id) # Err /\ BinIn(bins, last.id)))

\* with a bin in the store, a capture for a well-formed id of no bin and a
\* body over the limit was answered
C37_Witness ==
    /\ last.op = "log_request"
    /\ last.body_bytes > max_body_size
    /\ validate_uuid(last.id) # Err
    /\ ~BinIn(bins, last.id)
    /\ bins # {}

\* C38: a delete_request answered 200 removes the one row with that request_id
\* and no other row of any bin, and what inspect_bin lists of each bin is the
\* list of before without that request, in the same order
C38_DeleteRequestRemovesExactlyOne ==
    [][(Answered("delete_request") /\ last'.status = 200) =>
          LET uuid == validate_uuid(last'.id)
          IN /\ Cardinality({r \in requests : r.request_id = uuid}) = 1
             /\ requests' = {r \in requests : r.request_id # uuid}
             /\ \A b \in {r.bin_id : r \in requests} :
                   select_requests(requests', b) =
                      SelectSeq(select_requests(requests, b),
                                LAMBDA e : e.request_id # uuid)]_vars

\* delete_request removed the middle one of three requests of a bin while
\* another bin held a request
C38_Witness ==
    /\ last.op = "delete_request"
    /\ last.status = 200
    /\ \E i \in DOMAIN insertLog :
          /\ insertLog[i][2] = validate_uuid(last.id)
          /\ \E o, n \in requests :
                /\ o.bin_id = insertLog[i][1]
                /\ n.bin_id = insertLog[i][1]
                /\ InsertPos(o.request_id) < i
                /\ i < InsertPos(n.request_id)
          /\ \E r \in requests : r.bin_id # insertLog[i][1]

====
